---- MODULE Spec2Model ----
(***************************************************************************)
(* Model of QueryBuilder (vs/workbench/parts/search/common/queryBuilder.ts) *)
(* Strings are sequences of one-character strings.  An optional value is a  *)
(* sequence of length 0 (undefined) or 1 (the value).  An IExpression is a  *)
(* function from pattern strings to BOOLEAN.                                *)
(***************************************************************************)
EXTENDS Integers, Sequences, FiniteSets, TLC

VARIABLES workbenchState, folders, configuration, call, ret

vars == <<workbenchState, folders, configuration, call, ret>>

\* ---------------------------------------------------------------- bounds
MaxSegments == 2
MaxGlobLen == 6
MaxPathLen == 4

\* ------------------------------------------------------- string helpers
None == <<>>

Some(x) == <<x>>

IsSome(o) == Len(o) = 1

Get(o) == o[1]

Substr(s, from, to) == IF from > to THEN <<>> ELSE SubSeq(s, from, to)

StringsUpTo(A, n) == UNION {[1..k -> A] : k \in 0..n}

Range(s) == {s[i] : i \in 1..Len(s)}

RECURSIVE Flatten(_)
Flatten(ss) == IF ss = <<>> THEN <<>> ELSE Head(ss) \o Flatten(Tail(ss))

RECURSIVE JoinWith(_, _)
JoinWith(parts, sep) ==
    IF parts = <<>> THEN <<>>
    ELSE IF Len(parts) = 1 THEN parts[1]
    ELSE parts[1] \o sep \o JoinWith(Tail(parts), sep)

\* [/\\]
IsSep(c) == c \in {"/", "\\"}

\* [\*\{\}\(\)\[\]\?]
IsGlobChar(c) == c \in {"*", "{", "}", "(", ")", "[", "]", "?"}

HasSep(s) == \E i \in 1..Len(s) : IsSep(s[i])

\* does s contain sub as a contiguous substring
Contains(s, sub) ==
    \E i \in 1..(Len(s) - Len(sub) + 1) : SubSeq(s, i, i + Len(sub) - 1) = sub

\* ------------------------------------------- vs/base/common/paths, uri
\* paths.isAbsolute on a posix host: the first character is a slash
isAbsolute(p) == Len(p) > 0 /\ p[1] = "/"

\* the separator-delimited parts of a path
RECURSIVE PathParts(_, _)
PathParts(p, cur) ==
    IF p = <<>> THEN <<cur>>
    ELSE IF IsSep(Head(p)) THEN <<cur>> \o PathParts(Tail(p), <<>>)
    ELSE PathParts(Tail(p), Append(cur, Head(p)))

\* fold of the parts: "." and empty parts vanish, ".." removes its parent
RECURSIVE ResolveParts(_, _, _)
ResolveParts(parts, acc, rooted) ==
    IF parts = <<>> THEN acc
    ELSE LET h == Head(parts) IN
         IF h = <<>> \/ h = <<".">> THEN ResolveParts(Tail(parts), acc, rooted)
         ELSE IF h = <<".", ".">> THEN
              IF acc # <<>> /\ acc[Len(acc)] # <<".", ".">>
              THEN ResolveParts(Tail(parts), SubSeq(acc, 1, Len(acc) - 1), rooted)
              ELSE IF rooted THEN ResolveParts(Tail(parts), acc, rooted)
              ELSE ResolveParts(Tail(parts), Append(acc, h), rooted)
         ELSE ResolveParts(Tail(parts), Append(acc, h), rooted)

\* paths.normalize
normalize(p) ==
    LET rooted == Len(p) > 0 /\ IsSep(p[1])
        res == JoinWith(ResolveParts(PathParts(p, <<>>), <<>>, rooted), <<"/">>)
    IN IF rooted THEN <<"/">> \o res
       ELSE IF res = <<>> THEN <<".">> ELSE res

\* paths.join(a, b): a separator is added unless one is already there
join(a, b) ==
    IF (a # <<>> /\ IsSep(a[Len(a)])) \/ (b # <<>> /\ IsSep(b[1]))
    THEN normalize(a \o b)
    ELSE normalize(a \o <<"/">> \o b)

\* uri.file
uriFile(p) == [scheme |-> "file", path |-> p]

\* uri.fsPath
fsPath(u) == u.path

\* uri.toString
uriToString(u) == <<u.scheme, ":", "/", "/">> \o u.path

\* resources.joinPath
joinPath(u, fragment) ==
    [u EXCEPT !.path = join(IF u.path = <<>> THEN <<"/">> ELSE u.path, fragment)]

\* arrays.uniqueFilter: keeps the first element of each key
RECURSIVE uniqueFilter(_, _)
uniqueFilter(ps, seen) ==
    IF ps = <<>> THEN <<>>
    ELSE LET k == uriToString(Head(ps).searchPath) IN
         IF k \in seen THEN uniqueFilter(Tail(ps), seen)
         ELSE <<Head(ps)>> \o uniqueFilter(Tail(ps), seen \cup {k})

\* objects.mixin(destination, source): source keys overwrite
mixin(dest, src) ==
    [k \in (DOMAIN dest) \cup (DOMAIN src) |->
        IF k \in DOMAIN src THEN src[k] ELSE dest[k]]

\* glob.getEmptyExpression / Object.create(null)
EmptyExpression == [k \in {} |-> TRUE]

\* glob.splitGlobAware(pattern, ','): commas inside {} or [] do not split
RECURSIVE splitGlobAware(_, _, _, _)
splitGlobAware(p, curVal, inBraces, inBrackets) ==
    IF p = <<>> THEN (IF curVal = <<>> THEN <<>> ELSE <<curVal>>)
    ELSE LET c == Head(p) IN
         IF c = "," /\ ~inBraces /\ ~inBrackets
         THEN <<curVal>> \o splitGlobAware(Tail(p), <<>>, inBraces, inBrackets)
         ELSE splitGlobAware(Tail(p), Append(curVal, c),
                  IF c = "{" THEN TRUE ELSE IF c = "}" THEN FALSE ELSE inBraces,
                  IF c = "[" THEN TRUE ELSE IF c = "]" THEN FALSE ELSE inBrackets)

\* String.prototype.trim
RECURSIVE trim(_)
trim(s) ==
    IF s = <<>> THEN s
    ELSE IF Head(s) = " " THEN trim(Tail(s))
    ELSE IF s[Len(s)] = " " THEN trim(SubSeq(s, 1, Len(s) - 1))
    ELSE s

\* environmentService.userHome
userHome == <<"/", "h">>

\* labels.untildify: /^~($|\/|\\)/ is replaced by the home directory
untildify(path, home) ==
    IF Len(path) >= 1 /\ path[1] = "~" /\ (Len(path) = 1 \/ IsSep(path[2]))
    THEN home \o Tail(path)
    ELSE path

\* ------------------------------------------------ queryBuilder.ts, pure
\* Results that later steps read more than once are handed on as operator
\* parameters, so each is computed once.

\* 1-based index of the first glob metacharacter, 0 when there is none
globCharIdx(searchPath) ==
    IF \E i \in 1..Len(searchPath) : IsGlobChar(searchPath[i])
    THEN CHOOSE i \in 1..Len(searchPath) :
            /\ IsGlobChar(searchPath[i])
            /\ \A j \in 1..(i - 1) : ~IsGlobChar(searchPath[j])
    ELSE 0

\* does /[/|\\][^/\\]*$/ match prefix at index i
lastSlashAt(prefix, i) ==
    /\ prefix[i] \in {"/", "|", "\\"}
    /\ \A j \in (i + 1)..Len(prefix) : ~IsSep(prefix[j])

\* leftmost match of /[/|\\][^/\\]*$/ in prefix, 0 when there is none
lastSlashMatch(prefix) ==
    IF \E i \in 1..Len(prefix) : lastSlashAt(prefix, i)
    THEN CHOOSE i \in 1..Len(prefix) :
            lastSlashAt(prefix, i) /\ \A j \in 1..(i - 1) : ~lastSlashAt(prefix, j)
    ELSE 0

\* mutant: the slash is never appended
pathPortionOf_NoAppend(head) == head

\* the path portion cut before the slash; a slash is appended when none is left
pathPortionOf(head) == IF HasSep(head) THEN head ELSE head \o <<"/">>

\* the split at slash index l (0: no glob character, or no slash before it)
splitAtSlash(searchPath, l) ==
    IF l # 0
    THEN [pathPortion |-> pathPortionOf(Substr(searchPath, 1, l - 1)),
          globPortion |-> Some(Substr(searchPath, l + 1, Len(searchPath)))]
    ELSE [pathPortion |-> searchPath, globPortion |-> None]

splitAtGlobChar(searchPath, g) ==
    splitAtSlash(searchPath,
                 IF g = 0 THEN 0 ELSE lastSlashMatch(Substr(searchPath, 1, g - 1)))

splitGlobFromPath(searchPath) == splitAtGlobChar(searchPath, globCharIdx(searchPath))

patternListToIExpression(patterns) ==
    IF Len(patterns) > 0 THEN Some([k \in Range(patterns) |-> TRUE]) ELSE None

\* p.replace(/\*\*\/\*\*/g, '**'): one left-to-right pass, matches do not overlap
RECURSIVE replaceStarStar(_)
replaceStarStar(p) ==
    IF Len(p) < 5 THEN p
    ELSE IF SubSeq(p, 1, 5) = <<"*", "*", "/", "*", "*">>
         THEN <<"*", "*">> \o replaceStarStar(SubSeq(p, 6, Len(p)))
         ELSE <<Head(p)>> \o replaceStarStar(Tail(p))

expandGlobalGlob(pattern) ==
    << replaceStarStar(<<"*", "*", "/">> \o pattern \o <<"/", "*", "*">>),
       replaceStarStar(<<"*", "*", "/">> \o pattern) >>

nonEmpty(s) == Len(s) > 0

trimAll(parts) == [i \in 1..Len(parts) |-> trim(parts[i])]

splitGlobPattern(pattern) ==
    SelectSeq(trimAll(splitGlobAware(pattern, <<>>, FALSE, FALSE)), nonEmpty)

\* /^\.\.?[\/\\]/ or an absolute path
isSearchPath(segment) ==
    \/ isAbsolute(segment)
    \/ /\ Len(segment) >= 2
       /\ segment[1] = "."
       /\ \/ IsSep(segment[2])
          \/ (Len(segment) >= 3 /\ segment[2] = "." /\ IsSep(segment[3]))

notSearchPath(segment) == ~isSearchPath(segment)

\* ------------------------------------- queryBuilder.ts, workspace reads
\* does /\.[\/\\]([^\/\\]+)([\/\\].+)?/ match searchPath at index i
relativeMatchAt(searchPath, i) ==
    /\ searchPath[i] = "."
    /\ i + 2 <= Len(searchPath)
    /\ IsSep(searchPath[i + 1])
    /\ ~IsSep(searchPath[i + 2])

\* leftmost match of that expression, 0 when there is none
relativeSearchPathMatch(searchPath) ==
    IF \E i \in 1..Len(searchPath) : relativeMatchAt(searchPath, i)
    THEN CHOOSE i \in 1..Len(searchPath) :
            relativeMatchAt(searchPath, i)
            /\ \A j \in 1..(i - 1) : ~relativeMatchAt(searchPath, j)
    ELSE 0

\* last index of the greedy group ([^\/\\]+) of a match starting at index m
matchRootEnd(searchPath, m) ==
    CHOOSE e \in (m + 2)..Len(searchPath) :
        /\ \A j \in (m + 2)..e : ~IsSep(searchPath[j])
        /\ (e = Len(searchPath) \/ IsSep(searchPath[e + 1]))

\* group 2, ([\/\\].+)?, needs a separator and one more character
matchRest(searchPath, e) ==
    IF e + 2 <= Len(searchPath)
    THEN Some(SubSeq(searchPath, e + 1, Len(searchPath))) ELSE None

\* folders.filter(folder => folder.name === searchPathRoot)
matchingRootsOf(searchPathRoot) ==
    LET named(folder) == folder.name = searchPathRoot
    IN SelectSeq(folders, named)

\* the uris of the matching roots, or the error when there is none
expandMatchingRoots(matchingRoots, rest) ==
    IF Len(matchingRoots) > 0
    THEN [threw |-> FALSE,
          uris |-> [i \in 1..Len(matchingRoots) |->
                      IF IsSome(rest)
                      THEN joinPath(matchingRoots[i].uri, Get(rest))
                      ELSE matchingRoots[i].uri]]
    ELSE [threw |-> TRUE, uris |-> <<>>]

expandRelativeMatch(searchPath, m, e) ==
    expandMatchingRoots(matchingRootsOf(SubSeq(searchPath, m + 2, e)),
                        matchRest(searchPath, e))

\* multi-folder branch: m is the match index, 0 for a malformed path
expandInWorkspace(searchPath, m) ==
    IF m # 0
    THEN expandRelativeMatch(searchPath, m, matchRootEnd(searchPath, m))
    ELSE [threw |-> FALSE, uris |-> <<>>]

\* mutant: ./ is dropped before the single-folder branch is tried
expandAbsoluteSearchPaths_DotSlashFirst(searchPath) ==
    IF isAbsolute(searchPath)
    THEN [threw |-> FALSE, uris |-> <<uriFile(normalize(searchPath))>>]
    ELSE IF searchPath = <<".", "/">>
    THEN [threw |-> FALSE, uris |-> <<>>]
    ELSE IF workbenchState = "FOLDER"
    THEN [threw |-> FALSE, uris |-> <<joinPath(folders[1].uri, searchPath)>>]
    ELSE expandInWorkspace(searchPath, relativeSearchPathMatch(searchPath))

\* the outcome of a call: the returned uris, or the thrown error
expandAbsoluteSearchPaths(searchPath) ==
    IF isAbsolute(searchPath)
    THEN [threw |-> FALSE, uris |-> <<uriFile(normalize(searchPath))>>]
    ELSE IF workbenchState = "FOLDER"
    THEN [threw |-> FALSE, uris |-> <<joinPath(folders[1].uri, searchPath)>>]
    ELSE IF searchPath = <<".", "/">>
    THEN [threw |-> FALSE, uris |-> <<>>]
    ELSE expandInWorkspace(searchPath, relativeSearchPathMatch(searchPath))

\* pathPortions.map(searchPath => ({ searchPath, pattern: globPortion }))
withGlobPortion(pathPortions, globPortion) ==
    [threw |-> pathPortions.threw,
     patterns |-> [i \in 1..Len(pathPortions.uris) |->
                     [searchPath |-> pathPortions.uris[i], pattern |-> globPortion]]]

expandSplit(split) ==
    withGlobPortion(expandAbsoluteSearchPaths(split.pathPortion), split.globPortion)

\* a throw of any element aborts the whole map
flattenResults(first, rest) ==
    IF first.threw \/ rest.threw THEN [threw |-> TRUE, patterns |-> <<>>]
    ELSE [threw |-> FALSE, patterns |-> first.patterns \o rest.patterns]

\* arrays.flatten(searchPaths.map(...)) of expandSearchPathPatterns
RECURSIVE searchPathPatterns(_)
searchPathPatterns(searchPaths) ==
    IF searchPaths = <<>> THEN [threw |-> FALSE, patterns |-> <<>>]
    ELSE flattenResults(expandSplit(splitGlobFromPath(Head(searchPaths))),
                        searchPathPatterns(Tail(searchPaths)))

\* mutant: duplicates are not filtered out
filterUnique_KeepsAll(all) == all

\* searchPathPatterns.filter(arrays.uniqueFilter(p => p.searchPath.toString()))
filterUnique(all) ==
    IF all.threw THEN all
    ELSE [threw |-> FALSE, patterns |-> uniqueFilter(all.patterns, {})]

\* mutant: search paths are expanded even when no workspace is open
expandSearchPathPatterns_IgnoresMode(searchPaths) ==
    IF Len(searchPaths) = 0
    THEN [threw |-> FALSE, patterns |-> <<>>]
    ELSE filterUnique(searchPathPatterns(searchPaths))

expandSearchPathPatterns(searchPaths) ==
    IF workbenchState = "EMPTY" \/ Len(searchPaths) = 0
    THEN [threw |-> FALSE, patterns |-> <<>>]
    ELSE filterUnique(searchPathPatterns(searchPaths))

untildifyAll(split) == [i \in 1..Len(split) |-> untildify(split[i], userHome)]

\* the segments of the pattern after home-directory expansion
segmentsOf(pattern) == untildifyAll(splitGlobPattern(pattern))

\* ".js" becomes "*.js", then the segment is expanded
expandExprSegment(p) == expandGlobalGlob(IF p[1] = "." THEN <<"*">> \o p ELSE p)

expandExprSegments(exprSegments) ==
    Flatten([i \in 1..Len(exprSegments) |-> expandExprSegment(exprSegments[i])])

searchPathsResult(searchPaths, exprSegments) ==
    IF searchPaths.threw
    THEN [threw |-> TRUE, searchPaths |-> None, pattern |-> None]
    ELSE [threw |-> FALSE,
          searchPaths |-> IF Len(searchPaths.patterns) > 0
                          THEN Some(searchPaths.patterns) ELSE None,
          pattern |-> patternListToIExpression(exprSegments)]

parseSegments(segments) ==
    searchPathsResult(expandSearchPathPatterns(SelectSeq(segments, isSearchPath)),
                      expandExprSegments(SelectSeq(segments, notSearchPath)))

parseSearchPaths(pattern) == parseSegments(segmentsOf(pattern))

\* mutant: the glob tail is left out of the exclude key
excludePathOf_BareRoot(searchPath) == fsPath(searchPath.searchPath)

\* the exclude key of one resolved search path
excludePathOf(searchPath) ==
    IF IsSome(searchPath.pattern)
    THEN join(fsPath(searchPath.searchPath), Get(searchPath.pattern))
    ELSE fsPath(searchPath.searchPath)

\* result.searchPaths.forEach(searchPath => excludeExpression[excludePath] = true)
withExcludePaths(excludeExpression, searchPaths) ==
    mixin(excludeExpression,
          [k \in {excludePathOf(searchPaths[i]) : i \in 1..Len(searchPaths)} |-> TRUE])

nonEmptyExpression(expression) ==
    IF Cardinality(DOMAIN expression) > 0 THEN Some(expression) ELSE None

excludeExpressionOf(result) ==
    IF result.threw THEN [threw |-> TRUE, expression |-> None]
    ELSE [threw |-> FALSE,
          expression |->
             nonEmptyExpression(
                withExcludePaths(
                   IF IsSome(result.pattern)
                   THEN mixin(EmptyExpression, Get(result.pattern))
                   ELSE EmptyExpression,
                   IF IsSome(result.searchPaths) THEN Get(result.searchPaths) ELSE <<>>))]

parseExcludePattern(pattern) == excludeExpressionOf(parseSearchPaths(pattern))

\* ----------------------------------------- queryBuilder.ts, query build
DefaultConfig == [exclude |-> None, encoding |-> None, useIgnoreFiles |-> TRUE,
                  useGlobalIgnoreFiles |-> TRUE, followSymlinks |-> TRUE]

\* configurationService.getValue({ resource })
getValue(resource) ==
    IF resource.path \in DOMAIN configuration
    THEN configuration[resource.path] ELSE DefaultConfig

\* getExcludes(folderConfig) unless the caller disregards the settings
getExcludesForFolder(folderConfig, options) ==
    IF options.disregardExcludeSettings THEN None ELSE folderConfig.exclude

getAbsoluteIExpression(expr, root) ==
    [absPattern \in {join(root, key) :
                       key \in {k \in DOMAIN expr : expr[k] /\ ~isAbsolute(k)}} |-> TRUE]

\* the reduce step of mergeExcludesFromFolderQueries
mergeFolderQuery(merged, fq) ==
    IF IsSome(fq.excludePattern)
    THEN mixin(merged, getAbsoluteIExpression(Get(fq.excludePattern), fsPath(fq.folder)))
    ELSE merged

RECURSIVE mergedExcludes(_, _)
mergedExcludes(folderQueries, merged) ==
    IF folderQueries = <<>> THEN merged
    ELSE mergedExcludes(Tail(folderQueries), mergeFolderQuery(merged, Head(folderQueries)))

mergeExcludesFromFolderQueries(folderQueries) ==
    nonEmptyExpression(mergedExcludes(folderQueries, EmptyExpression))

searchPathFolderQuery(searchPath, folderConfig) ==
    [folder |-> searchPath.searchPath,
     includePattern |-> IF IsSome(searchPath.pattern)
                        THEN patternListToIExpression(<<Get(searchPath.pattern)>>)
                        ELSE None,
     fileEncoding |-> folderConfig.encoding]

getFolderQueryForSearchPath(searchPath) ==
    searchPathFolderQuery(searchPath, getValue(searchPath.searchPath))

\* typeof option === 'boolean' ? option : !setting
flagOf(option, setting) == IF IsSome(option) THEN Get(option) ELSE ~setting

rootFolderQuery(folder, options, folderConfig) ==
    [folder |-> folder,
     excludePattern |-> getExcludesForFolder(folderConfig, options),
     fileEncoding |-> folderConfig.encoding,
     disregardIgnoreFiles |->
         flagOf(options.disregardIgnoreFiles, folderConfig.useIgnoreFiles),
     disregardGlobalIgnoreFiles |->
         flagOf(options.disregardGlobalIgnoreFiles, folderConfig.useGlobalIgnoreFiles),
     ignoreSymlinks |-> flagOf(options.ignoreSymlinks, folderConfig.followSymlinks)]

getFolderQueryForRoot(folder, options) == rootFolderQuery(folder, options, getValue(folder))

\* folderResources && folderResources.map(uri => this.getFolderQueryForRoot(uri, options))
rootFolderQueries(folderResources, options) ==
    IF IsSome(folderResources)
    THEN Some([i \in 1..Len(Get(folderResources)) |->
                 getFolderQueryForRoot(Get(folderResources)[i], options)])
    ELSE None

\* the branch taken when search paths were found
searchPathQuery(searchPaths, includePattern, excludePattern, allRootExcludes) ==
    [threw |-> FALSE,
     folderQueries |-> [i \in 1..Len(searchPaths) |->
                          getFolderQueryForSearchPath(searchPaths[i])],
     usingSearchPaths |-> TRUE,
     excludePattern |->
        IF IsSome(allRootExcludes)
        THEN Some(mixin(IF IsSome(excludePattern) THEN Get(excludePattern)
                        ELSE EmptyExpression,
                        Get(allRootExcludes)))
        ELSE excludePattern,
     includePattern |-> includePattern]

\* mutant: explicit roots, when supplied, win over the search paths
queryProps_RootsWin(parsed, excluded, folderQueries) ==
    IF parsed.threw \/ excluded.threw THEN [threw |-> TRUE]
    ELSE IF IsSome(parsed.searchPaths) /\ ~IsSome(folderQueries)
    THEN searchPathQuery(Get(parsed.searchPaths), parsed.pattern, excluded.expression, None)
    ELSE [threw |-> FALSE,
          folderQueries |-> IF IsSome(folderQueries) THEN Get(folderQueries) ELSE <<>>,
          usingSearchPaths |-> IsSome(parsed.searchPaths),
          excludePattern |-> excluded.expression,
          includePattern |-> parsed.pattern]

queryProps(parsed, excluded, folderQueries) ==
    IF parsed.threw \/ excluded.threw THEN [threw |-> TRUE]
    ELSE IF IsSome(parsed.searchPaths) /\ Len(Get(parsed.searchPaths)) > 0
    THEN searchPathQuery(Get(parsed.searchPaths), parsed.pattern, excluded.expression,
            IF IsSome(folderQueries)
            THEN mergeExcludesFromFolderQueries(Get(folderQueries)) ELSE None)
    ELSE [threw |-> FALSE,
          folderQueries |-> IF IsSome(folderQueries) THEN Get(folderQueries) ELSE <<>>,
          usingSearchPaths |-> FALSE,
          excludePattern |-> excluded.expression,
          includePattern |-> parsed.pattern]

\* the query properties shared by file() and text(); extraFileResources,
\* maxResults and useRipgrep pass through and are left out
commonQuery(folderResources, options) ==
    queryProps(parseSearchPaths(options.includePattern),
               parseExcludePattern(options.excludePattern),
               rootFolderQueries(folderResources, options))

\* ------------------------------------------------------------- inputs
uriA == uriFile(<<"/", "a">>)

uriC == uriFile(<<"/", "c">>)

uriCA == uriFile(<<"/", "c", "/", "a">>)

\* workspaceContextService: the mode and the root folders
Workspaces ==
    { [state |-> "EMPTY", folders |-> <<>>],
      [state |-> "FOLDER", folders |-> <<[name |-> <<"a">>, uri |-> uriA]>>],
      [state |-> "WORKSPACE",
       folders |-> <<[name |-> <<"a">>, uri |-> uriA], [name |-> <<"c">>, uri |-> uriC]>>],
      [state |-> "WORKSPACE",
       folders |-> <<[name |-> <<"a">>, uri |-> uriA], [name |-> <<"a">>, uri |-> uriCA]>>] }

\* configurationService: per-folder settings, keyed by the folder's path
Configurations ==
    { [k \in {} |-> DefaultConfig],
      (<<"/", "a">> :> [DefaultConfig EXCEPT
                          !.exclude = Some(<<"c">> :> TRUE @@ <<"/", "c">> :> TRUE)]
       @@ <<"/", "c">> :> [DefaultConfig EXCEPT !.exclude = Some(<<"c">> :> TRUE)]),
      (<<"/", "a">> :> [DefaultConfig EXCEPT
                          !.exclude = Some(<<"c">> :> FALSE @@ <<"a", "/", "c">> :> TRUE),
                          !.encoding = Some("utf8")]) }

\* the segments a caller types, search-path anchors first, then globs
SegmentPool ==
    { <<"/", "a">>,
      <<"/", "a", "/", "*", "c">>,
      <<"/", "c", "/", ".", ".", "/", "a">>,
      <<"~", "/", "a">>,
      <<".", "/", "a">>,
      <<".", "/", "a", "/", "c">>,
      <<".", "/", "c", "/", "*", "a">>,
      <<".", "/", "m">>,
      <<".", "/">>,
      <<".", "/", "*", "a">>,
      <<".", ".", "/", "m">>,
      <<".", ".", "/", "a">>,
      <<".", ".", "/">>,
      <<"a">>,
      <<".", "c">>,
      <<"*", "*">>,
      <<"c", "/", "*", "*">>,
      <<"{", "a", ",", "c", "}">> }

\* the include patterns tried in whole-query construction
QueryPool ==
    { <<"/", "a">>,
      <<".", "/", "a">>,
      <<".", "/", "c", "/", "*", "a">>,
      <<".", "/", "m">>,
      <<".", "/">>,
      <<"a">> }

\* a pattern as typed: segments separated by a comma and a blank
PatternOf(segments) == JoinWith(segments, <<",", " ">>)

Inputs(pool) == StringsUpTo(pool, MaxSegments)

FolderResourceChoices ==
    { None, Some(<<>>), Some(<<uriA>>), Some(<<uriA, uriC>>), Some(<<uriC, uriA>>) }

ExcludeChoices == { <<>>, <<"a">>, <<".", "/", "c">> }

GlobAlphabet == {"*", "/", "a"}

PathAlphabet == {"/", "\\", "|", "a", "*", "{"}

\* ------------------------------------------------------ state machine
Idle == [op |-> "none"]

Init ==
    /\ \E w \in Workspaces : workbenchState = w.state /\ folders = w.folders
    /\ configuration \in Configurations
    /\ call = Idle
    /\ ret = None

ParseSearchPaths ==
    /\ call.op = "none"
    /\ \E segments \in Inputs(SegmentPool) :
          /\ call' = [op |-> "parseSearchPaths", segments |-> segments,
                      pattern |-> PatternOf(segments)]
          /\ ret' = parseSearchPaths(PatternOf(segments))
    /\ UNCHANGED <<workbenchState, folders, configuration>>

ParseExcludePattern ==
    /\ call.op = "none"
    /\ \E segments \in Inputs(SegmentPool) :
          /\ call' = [op |-> "parseExcludePattern", segments |-> segments,
                      pattern |-> PatternOf(segments)]
          /\ ret' = parseExcludePattern(PatternOf(segments))
    /\ UNCHANGED <<workbenchState, folders, configuration>>

CommonQuery ==
    /\ call.op = "none"
    /\ \E segments \in Inputs(QueryPool), exclude \in ExcludeChoices,
          folderResources \in FolderResourceChoices, disregard \in BOOLEAN :
          LET options == [includePattern |-> PatternOf(segments),
                          excludePattern |-> exclude,
                          disregardExcludeSettings |-> disregard,
                          disregardIgnoreFiles |-> None,
                          disregardGlobalIgnoreFiles |-> None,
                          ignoreSymlinks |-> None]
          IN /\ call' = [op |-> "commonQuery", segments |-> segments,
                         folderResources |-> folderResources, options |-> options]
             /\ ret' = commonQuery(folderResources, options)
    /\ UNCHANGED <<workbenchState, folders, configuration>>

\* the caller takes the result; the builder keeps nothing between calls
Return ==
    /\ call.op # "none"
    /\ call' = Idle
    /\ ret' = None
    /\ UNCHANGED <<workbenchState, folders, configuration>>

Next == ParseSearchPaths \/ ParseExcludePattern \/ CommonQuery \/ Return

Spec == Init /\ [][Next]_vars

\* expandGlobalGlob applied to every glob segment up to MaxGlobLen
InitGlob ==
    /\ workbenchState = "EMPTY" /\ folders = <<>>
    /\ configuration = [k \in {} |-> DefaultConfig]
    /\ \E g \in StringsUpTo(GlobAlphabet, MaxGlobLen) \ {<<>>} :
          call = [op |-> "input", pattern |-> g]
    /\ ret = None

ExpandGlobalGlob ==
    /\ call.op = "input"
    /\ call' = [call EXCEPT !.op = "expandGlobalGlob"]
    /\ ret' = expandGlobalGlob(call.pattern)
    /\ UNCHANGED <<workbenchState, folders, configuration>>

NextGlob == ExpandGlobalGlob

SpecGlob == InitGlob /\ [][NextGlob]_vars

\* splitGlobFromPath applied to every string up to MaxPathLen
InitSplit ==
    /\ workbenchState = "EMPTY" /\ folders = <<>>
    /\ configuration = [k \in {} |-> DefaultConfig]
    /\ \E p \in StringsUpTo(PathAlphabet, MaxPathLen) :
          call = [op |-> "input", searchPath |-> p]
    /\ ret = None

SplitGlobFromPath ==
    /\ call.op = "input"
    /\ call' = [call EXCEPT !.op = "splitGlobFromPath"]
    /\ ret' = splitGlobFromPath(call.searchPath)
    /\ UNCHANGED <<workbenchState, folders, configuration>>

NextSplit == SplitGlobFromPath

SpecSplit == InitSplit /\ [][NextSplit]_vars

\* ================================================== claims
\* the segments the caller typed, after home-directory expansion
TypedSegments ==
    IF call.op = "commonQuery"
    THEN untildifyAll(call.segments)
         \o (IF call.options.excludePattern = <<>> THEN <<>>
             ELSE <<untildify(call.options.excludePattern, userHome)>>)
    ELSE untildifyAll(call.segments)

TypedAnchors == SelectSeq(TypedSegments, isSearchPath)

TypedGlobs == SelectSeq(TypedSegments, notSearchPath)

HasGlobChar(s) == \E i \in 1..Len(s) : IsGlobChar(s[i])

\* a path portion of the form ./name or ./name/rest
NamedRootForm(p) == Len(p) >= 3 /\ p[1] = "." /\ IsSep(p[2]) /\ ~IsSep(p[3])

\* the characters of s up to its first separator
RECURSIVE UpToSep(_)
UpToSep(s) ==
    IF s = <<>> \/ IsSep(Head(s)) THEN <<>> ELSE <<Head(s)>> \o UpToSep(Tail(s))

NameOf(p) == UpToSep(SubSeq(p, 3, Len(p)))

NoFolderNamed(name) == \A i \in 1..Len(folders) : folders[i].name # name

NamesMissingRoot(segment) ==
    LET p == splitGlobFromPath(segment).pathPortion
    IN NamedRootForm(p) /\ NoFolderNamed(NameOf(p))

ParseCall == call.op \in {"parseSearchPaths", "parseExcludePattern", "commonQuery"}

\* C1: in a multi-root workspace a parse raises the named-root-not-found
\* error exactly when some anchor's path portion is ./name or ./name/rest
\* and no root folder is named name; every other parse returns a result.
C1_RaisesExactlyOnMissingName ==
    ParseCall =>
        (ret.threw <=>
            /\ workbenchState = "WORKSPACE"
            /\ \E i \in 1..Len(TypedAnchors) : NamesMissingRoot(TypedAnchors[i]))

\* a relative anchor whose path portion does not match ^\.[/\\]([^/\\]+)([/\\].+)?
MalformedRelative(segment) ==
    LET p == splitGlobFromPath(segment).pathPortion
    IN ~isAbsolute(p) /\ ~NamedRootForm(p)

\* C8: in a multi-root workspace relative anchors whose path portion does
\* not match the pattern anchored at its start contribute no
\* SearchPathPattern and never raise.
C8_MalformedAnchorsIgnored ==
    ( /\ call.op = "parseSearchPaths"
      /\ workbenchState = "WORKSPACE"
      /\ Len(TypedAnchors) > 0
      /\ \A i \in 1..Len(TypedAnchors) : MalformedRelative(TypedAnchors[i]) )
    => (~ret.threw /\ ret.searchPaths = None)

\* one absolute anchor without glob metacharacters was parsed
OneAbsoluteAnchor ==
    /\ call.op = "parseSearchPaths"
    /\ Len(call.segments) = 1
    /\ isAbsolute(TypedSegments[1])
    /\ ~HasGlobChar(TypedSegments[1])

\* a location without ".", ".." or empty parts
IsNormalLocation(path) ==
    /\ isAbsolute(path)
    /\ \A part \in Range(Tail(PathParts(path, <<>>))) :
          part \notin {<<>>, <<".">>, <<".", ".">>}

ResolvesToItself ==
    /\ ~ret.threw
    /\ IsSome(ret.searchPaths)
    /\ Len(Get(ret.searchPaths)) = 1
    /\ Get(ret.searchPaths)[1].searchPath = uriFile(normalize(TypedSegments[1]))
    /\ IsNormalLocation(Get(ret.searchPaths)[1].searchPath.path)
    /\ Get(ret.searchPaths)[1].pattern = None

\* C2 as stated: in every workspace mode one absolute anchor without glob
\* metacharacters resolves to exactly one SearchPathPattern, at the
\* normalized location, without a tail.
C2_AbsoluteAnchorAnyMode == OneAbsoluteAnchor => ResolvesToItself

\* C2 amended: that holds in single-folder and multi-folder mode; with no
\* workspace open the anchor is ignored and no SearchPathPattern results.
C2_AbsoluteAnchorInWorkspace ==
    OneAbsoluteAnchor =>
        IF workbenchState = "EMPTY"
        THEN ~ret.threw /\ ret.searchPaths = None
        ELSE ResolvesToItself

C2_Witness ==
    /\ OneAbsoluteAnchor
    /\ workbenchState = "WORKSPACE"
    /\ call.segments[1] = <<"/", "c", "/", ".", ".", "/", "a">>
    /\ ~ret.threw
    /\ Get(ret.searchPaths) = <<[searchPath |-> uriA, pattern |-> None]>>

\* the expansion results of all anchors, in input order, before filtering
RawExpansions == searchPathPatterns(TypedAnchors).patterns

RootOf(p) == uriToString(p.searchPath)

RECURSIVE FirstOccurrences(_, _)
FirstOccurrences(raw, i) ==
    IF i > Len(raw) THEN <<>>
    ELSE IF \E j \in 1..(i - 1) : RootOf(raw[j]) = RootOf(raw[i])
         THEN FirstOccurrences(raw, i + 1)
         ELSE <<raw[i]>> \o FirstOccurrences(raw, i + 1)

Resolved == IF IsSome(ret.searchPaths) THEN Get(ret.searchPaths) ELSE <<>>

\* C3: the resolver's output holds no two patterns with the same root; each
\* entry is the first expansion result that reached its root (so it keeps
\* the first tail), and the entries keep the order of first occurrence.
C3_UniqueRootsFirstWins ==
    (call.op = "parseSearchPaths" /\ ~ret.threw) =>
        /\ \A i, j \in 1..Len(Resolved) :
              i # j => RootOf(Resolved[i]) # RootOf(Resolved[j])
        /\ workbenchState # "EMPTY" =>
              Resolved = FirstOccurrences(RawExpansions, 1)

C3_Witness ==
    /\ call.op = "parseSearchPaths"
    /\ ~ret.threw
    /\ workbenchState = "WORKSPACE"
    /\ Len(RawExpansions) = 2
    /\ RootOf(RawExpansions[1]) = RootOf(RawExpansions[2])
    /\ IsSome(RawExpansions[1].pattern)
    /\ RawExpansions[2].pattern = None
    /\ Resolved = <<RawExpansions[1]>>

\* the exclude pattern of the descriptor built for an explicit root
FolderExcludeOf(folder) == getFolderQueryForRoot(folder, call.options).excludePattern

\* a per-folder exclude key in absolute form under its root
Rebased(key, folder) == IF isAbsolute(key) THEN key ELSE join(fsPath(folder), key)

\* C4: when the include pattern resolves to a search path and explicit roots
\* were supplied, every active key of every explicit folder's exclude
\* pattern is in the query's excludePattern, in absolute form under its root.
C4_FolderExcludesKept ==
    ( /\ call.op = "commonQuery"
      /\ ~ret.threw
      /\ ret.usingSearchPaths
      /\ IsSome(call.folderResources) )
    => \A folder \in Range(Get(call.folderResources)) :
          IsSome(FolderExcludeOf(folder)) =>
             \A key \in DOMAIN Get(FolderExcludeOf(folder)) :
                Get(FolderExcludeOf(folder))[key] =>
                   /\ IsSome(ret.excludePattern)
                   /\ Rebased(key, folder) \in DOMAIN Get(ret.excludePattern)

\* the search paths of the include-side assembly of the call
IncludeSearchPaths ==
    LET parsed == parseSearchPaths(call.options.includePattern)
    IN IF IsSome(parsed.searchPaths) THEN Get(parsed.searchPaths) ELSE <<>>

ExplicitRoots ==
    IF IsSome(call.folderResources) THEN Get(call.folderResources) ELSE <<>>

\* the include pattern of a descriptor built from a glob tail
TailPattern(tail) == IF IsSome(tail) THEN Some(Get(tail) :> TRUE) ELSE None

\* C5: usingSearchPaths is true exactly when the include side produced a
\* SearchPathPattern; then folderQueries holds one descriptor per pattern,
\* in order, with its root and its own tail, and none built for an explicit
\* root; otherwise it holds one descriptor per explicit root, in order.
C5_FolderQueriesFromAnchorsOrRoots ==
    (call.op = "commonQuery" /\ ~ret.threw) =>
        /\ ret.usingSearchPaths <=> Len(IncludeSearchPaths) > 0
        /\ IF ret.usingSearchPaths
           THEN /\ Len(ret.folderQueries) = Len(IncludeSearchPaths)
                /\ \A i \in 1..Len(ret.folderQueries) :
                      /\ ret.folderQueries[i].folder = IncludeSearchPaths[i].searchPath
                      /\ ret.folderQueries[i].includePattern
                            = TailPattern(IncludeSearchPaths[i].pattern)
                      /\ "excludePattern" \notin DOMAIN ret.folderQueries[i]
           ELSE /\ Len(ret.folderQueries) = Len(ExplicitRoots)
                /\ \A i \in 1..Len(ret.folderQueries) :
                      /\ ret.folderQueries[i].folder = ExplicitRoots[i]
                      /\ "excludePattern" \in DOMAIN ret.folderQueries[i]

C5_Witness ==
    /\ call.op = "commonQuery"
    /\ ~ret.threw
    /\ ret.usingSearchPaths
    /\ Len(ExplicitRoots) = 2
    /\ Len(ret.folderQueries) = 2
    /\ ret.folderQueries[1].folder = uriA
    /\ ret.folderQueries[1].includePattern = None
    /\ ret.folderQueries[2].folder = uriC
    /\ IsSome(ret.folderQueries[2].includePattern)

\* the literal exclude key the claim gives a resolved search path
LiteralKey(p) ==
    IF IsSome(p.pattern) THEN join(fsPath(p.searchPath), Get(p.pattern))
    ELSE fsPath(p.searchPath)

ExcludeSearchPaths ==
    LET parsed == parseSearchPaths(call.pattern)
    IN IF IsSome(parsed.searchPaths) THEN Get(parsed.searchPaths) ELSE <<>>

ExpectedExcludeKeys ==
    UNION {Range(expandExprSegment(TypedGlobs[i])) : i \in 1..Len(TypedGlobs)}
    \cup {LiteralKey(ExcludeSearchPaths[i]) : i \in 1..Len(ExcludeSearchPaths)}

\* C6: parseExcludePattern returns absent exactly when the input yields no
\* glob expression and no resolved search path; otherwise its keys are the
\* expanded glob keys and one literal key per resolved search path (root
\* joined with its tail, or the bare root), all mapped to true.
C6_ExcludeKeys ==
    (call.op = "parseExcludePattern" /\ ~ret.threw) =>
        /\ ret.expression = None
              <=> (Len(TypedGlobs) = 0 /\ Len(ExcludeSearchPaths) = 0)
        /\ IsSome(ret.expression) =>
              /\ DOMAIN Get(ret.expression) = ExpectedExcludeKeys
              /\ \A k \in DOMAIN Get(ret.expression) : Get(ret.expression)[k] = TRUE

C6_Witness ==
    /\ call.op = "parseExcludePattern"
    /\ workbenchState = "WORKSPACE"
    /\ call.segments = << <<"a">>, <<".", "/", "a">> >>
    /\ folders[1] = [name |-> <<"a">>, uri |-> uriA]
    /\ Len(matchingRootsOf(<<"a">>)) = 1
    /\ ~ret.threw
    /\ DOMAIN Get(ret.expression)
          = { <<"*", "*", "/", "a", "/", "*", "*">>, <<"*", "*", "/", "a">>, <<"/", "a">> }

DotSlashParsed ==
    /\ call.op = "parseSearchPaths"
    /\ call.segments = << <<".", "/">> >>

\* C7 as stated: the anchor ./ yields no SearchPathPattern and no error in
\* single-folder mode and in multi-folder mode.
C7_DotSlashYieldsNothing ==
    (DotSlashParsed /\ workbenchState \in {"FOLDER", "WORKSPACE"}) =>
        (~ret.threw /\ ret.searchPaths = None)

\* C7 amended: in single-folder mode ./ yields exactly one SearchPathPattern,
\* the sole root folder joined with ./ and no tail; in multi-folder mode it
\* yields none; no error is raised in either mode.
C7_DotSlashByMode ==
    DotSlashParsed =>
        /\ ~ret.threw
        /\ workbenchState = "FOLDER" =>
              ret.searchPaths =
                 Some(<<[searchPath |-> joinPath(folders[1].uri, <<".", "/">>),
                         pattern |-> None]>>)
        /\ workbenchState = "WORKSPACE" => ret.searchPaths = None

C7_Witness ==
    /\ DotSlashParsed
    /\ workbenchState = "FOLDER"
    /\ ~ret.threw
    /\ Len(Get(ret.searchPaths)) = 1

\* C9: expandGlobalGlob returns exactly two patterns, and neither contains
\* the substring **/**.
C9_NoDoubleStarPair ==
    call.op = "expandGlobalGlob" =>
        /\ Len(ret) = 2
        /\ \A i \in 1..Len(ret) : ~Contains(ret[i], <<"*", "*", "/", "*", "*">>)

\* index of the nearest separator before the first glob character, 0 if none
NearestSepBefore(s, g) ==
    IF \E i \in 1..(g - 1) : IsSep(s[i])
    THEN CHOOSE i \in 1..(g - 1) : IsSep(s[i]) /\ \A j \in (i + 1)..(g - 1) : ~IsSep(s[j])
    ELSE 0

SplitWithSep ==
    /\ call.op = "splitGlobFromPath"
    /\ HasGlobChar(call.searchPath)
    /\ NearestSepBefore(call.searchPath, globCharIdx(call.searchPath)) # 0

SplitSep == NearestSepBefore(call.searchPath, globCharIdx(call.searchPath))

TailIsClean ==
    /\ IsSome(ret.globPortion)
    /\ Get(ret.globPortion) = Substr(call.searchPath, SplitSep + 1, Len(call.searchPath))
    /\ Len(Get(ret.globPortion)) > 0
    /\ ~IsSep(Get(ret.globPortion)[1])
    /\ ~HasGlobChar(ret.pathPortion)

NoGlobCharKeepsAll ==
    (call.op = "splitGlobFromPath" /\ ~HasGlobChar(call.searchPath)) =>
        (ret.pathPortion = call.searchPath /\ ret.globPortion = None)

\* C10 as stated: the path portion runs up to and including the nearest
\* separator before the first metacharacter and the tail is the rest, so
\* path portion followed by tail reproduces the segment.
C10_PathPortionIncludesSeparator ==
    /\ SplitWithSep =>
          /\ ret.pathPortion = Substr(call.searchPath, 1, SplitSep)
          /\ TailIsClean
          /\ ret.pathPortion \o Get(ret.globPortion) = call.searchPath
    /\ NoGlobCharKeepsAll

\* C10 amended: the path portion is everything before that separator, with
\* a slash appended when no separator is left in it; the tail is everything
\* after the separator, starts with no separator, and the path portion
\* holds no metacharacter; without a metacharacter the segment is the path
\* portion and the tail is absent.
C10_PathPortionBeforeSeparator ==
    /\ SplitWithSep =>
          /\ ret.pathPortion =
                (IF HasSep(Substr(call.searchPath, 1, SplitSep - 1))
                 THEN Substr(call.searchPath, 1, SplitSep - 1)
                 ELSE Substr(call.searchPath, 1, SplitSep - 1) \o <<"/">>)
          /\ TailIsClean
    /\ NoGlobCharKeepsAll

C10_Witness ==
    /\ SplitWithSep
    /\ call.searchPath = <<"/", "a", "/", "*">>
    /\ ret.pathPortion = <<"/", "a">>
    /\ ret.globPortion = Some(<<"*">>)

====
